---- MODULE Spec2Model ----
(***************************************************************************)
(* Model of the state-smoother plotting scripts                            *)
(*   plt_smoother_rmse_spread_all_stats_4_pane_verus_shift.py  ("shift")   *)
(*   plt_smoother_rmse_spread_all_stats_4_pane_verus_tanl.py   ("tanl")    *)
(*   plt_smoother_rmse_spread_v_lag.py                         ("lag")     *)
(* and of the find_optimal_values routine each of them defines.            *)
(*                                                                         *)
(* Conventions.  Python indices start at 0, the sequences here at 1: the   *)
(* Python index n is position n + 1.  A float is an integer (an RMSE in    *)
(* model units) or one of the two codes NaN and Inf; floats are compared   *)
(* only through FEq and FLess, which give NaN and Inf their IEEE meaning.  *)
(* An n-dimensional array is a record [shape, v]: shape is the tuple of    *)
(* its dimensions and v the nested sequences of its entries.               *)
(***************************************************************************)
EXTENDS Integers, Sequences, FiniteSets, TLC

\* ------------------------------------------------------------------------
\* Bounds of the model
\* ------------------------------------------------------------------------
MaxOuter == 2
MaxInner == 3
MaxLag == 2
MaxVal == 1
MaxRuns == 2

\* ------------------------------------------------------------------------
\* Floats
\* ------------------------------------------------------------------------
NaN == -1
Inf == 1000000

isnan(x) == x = NaN

\* x == y on floats: NaN equals nothing, not even itself.
FEq(x, y) == ~isnan(x) /\ ~isnan(y) /\ x = y

\* x < y on floats: false whenever NaN is involved, Inf above every number.
FLess(x, y) ==
    /\ ~isnan(x)
    /\ ~isnan(y)
    /\ x # Inf
    /\ (y = Inf \/ x < y)

\* np.min of a one-dimensional slice: NaN if the slice holds a NaN,
\* otherwise its least entry.
NpMin(s) ==
    IF \E k \in 1..Len(s) : isnan(s[k])
    THEN NaN
    ELSE CHOOSE m \in {s[k] : k \in 1..Len(s)} :
             \A k \in 1..Len(s) : ~FLess(s[k], m)

\* ------------------------------------------------------------------------
\* Arrays
\* ------------------------------------------------------------------------
Array3(A, B, C, val) ==
    [shape |-> <<A, B, C>>,
     v |-> [i \in 1..A |-> [k \in 1..B |-> [j \in 1..C |-> val[i][k][j]]]]]

Array2(R, S, val) ==
    [shape |-> <<R, S>>,
     v |-> [r \in 1..R |-> [s \in 1..S |-> val[r][s]]]]

\* np.zeros([R, S])
NpZeros(R, S) == Array2(R, S, [r \in 1..(R) |-> [s \in 1..(S) |-> 0]])

\* tuned_rmse[np.isnan(tuned_rmse)] = np.inf
ReplaceNaNWithZero(a) ==
    [shape |-> a.shape,
     v |-> [i \in 1..a.shape[1] |-> [k \in 1..a.shape[2] |->
              [j \in 1..a.shape[3] |->
                 IF isnan(a.v[i][k][j]) THEN 0 ELSE a.v[i][k][j]]]]]

ReplaceNaN(a) ==
    Array3(a.shape[1], a.shape[2], a.shape[3],
        [i \in 1..a.shape[1] |->
         [k \in 1..a.shape[2] |-> [j \in 1..a.shape[3] |->
            IF isnan(a.v[i][k][j]) THEN Inf ELSE a.v[i][k][j]]]])

\* a[i, :, j]
InnerSlice(a, i, j) == [k \in 1..a.shape[2] |-> a.v[i][k][j]]

\* np.min(a, axis=1): the minimum over the inner axis, shape (outer, lag).
NpMinAxis0(a) ==
    Array2(a.shape[1], a.shape[3],
        [i \in 1..a.shape[1] |-> [j \in 1..a.shape[3] |->
            NpMin([n \in 1..a.shape[1] |-> a.v[n][1][j]])]])

NpMinAxis1(a) ==
    Array2(a.shape[1], a.shape[3],
        [i \in 1..a.shape[1] |-> [j \in 1..a.shape[3] |->
            NpMin(InnerSlice(a, i, j))]])

\* np.transpose of a two-dimensional array.
NpTransposeNone(a) == a

NpTranspose(a) ==
    Array2(a.shape[2], a.shape[1],
        [r \in 1..a.shape[2] |-> [s \in 1..a.shape[1] |->
            a.v[s][r]]])

\* The positions of the TRUE entries of a boolean mask, ascending.
RECURSIVE NonZero(_)
NonZero(mask) ==
    IF Len(mask) = 0
    THEN <<>>
    ELSE LET front == NonZero(SubSeq(mask, 1, Len(mask) - 1))
         IN  IF mask[Len(mask)] THEN Append(front, Len(mask)) ELSE front

\* a[i, indx, j] for a three-dimensional a, scalar i and j (positions) and a
\* boolean mask indx: IndexError when i or j is out of range or the mask's
\* length differs from the inner dimension, otherwise the entries at the
\* mask's TRUE positions.  at holds the inner positions they come from.
BoolIndex(a, i, indx, j) ==
    IF \/ i > a.shape[1]
       \/ j > a.shape[3]
       \/ Len(indx) # a.shape[2]
    THEN [status |-> "IndexError", vals |-> <<>>, at |-> <<>>]
    ELSE LET nz == NonZero(indx)
         IN  [status |-> "ok",
              vals |-> [n \in 1..Len(nz) |-> a.v[i][nz[n]][j]],
              at |-> nz]

\* ------------------------------------------------------------------------
\* The input container
\* ------------------------------------------------------------------------
\* method + '_' + stat + '_rmse' and method + '_' + stat + '_spread'
Key(method, stat, metric) == method \o "_" \o stat \o "_" \o metric

stats == <<"post", "filt", "fore">>

Metrics == {"rmse", "spread"}

\* method_list of each script: the shift and lag scripts plot the tuned
\* schemes, the tanl script the finite-size ("-n") schemes.
method_list(scr) ==
    IF scr = "tanl"
    THEN <<"mles-n-transform_classic", "mles-n-transform_single_iteration",
           "lin-ienks-n-transform", "ienks-n-transform">>
    ELSE <<"etks_classic", "etks_single_iteration",
           "lin-ienks-transform", "ienks-transform">>

\* ------------------------------------------------------------------------
\* find_optimal_values
\* ------------------------------------------------------------------------
VARIABLES
    f,        \* the container opened by the script (the global f)
    data,     \* the container passed as find_optimal_values' third argument
    call,     \* the last call made: [script, method, stat]
    ret,      \* what that call returned or raised
    pc        \* control position

VARIABLES
    script,   \* the script that runs: "shift", "tanl" or "lag"
    disk,     \* the content of the results file the script opens
    opened,   \* whether the script has opened the results file
    mpos,     \* position of the outer loop in method_list
    spos,     \* position of the inner loop in stats
    gi,       \* the script's global i (pane counter of shift and tanl)
    gj,       \* the script's global j (method counter)
    gk,       \* the lag script's global k (colour counter)
    rmse,     \* the script's global rmse
    spread,   \* the script's global spread
    drawn,    \* what has been drawn on the figure, in order
    shown,    \* how many times the figure has been displayed
    err,      \* the uncaught exception that ended the run, or "none"
    run,      \* the number of the run
    prev      \* how the previous run ended

\* The container after the masked assignment of line 65.  tuned_rmse is the
\* array np.array built from the dataset, so the assignment reaches only
\* that array and the container keeps the dataset as it was.
ContainerAfterWriteAliased(src, key, written) == [src EXCEPT ![key] = written]

ContainerAfterWrite(src, key, written) == src

\* tmp[0]
TakeLast(vals) == vals[Len(vals)]

TakeFirst(vals) == vals[1]

NoArray == NpZeros(0, 0)

Raise(exc, store) ==
    [status |-> exc, rmse |-> NoArray, spread |-> NoArray,
     at_rmse |-> NoArray, at_spread |-> NoArray, store |-> store]

\* What the caller sees of a call's result.
Outcome(r) ==
    [status |-> r.status, rmse |-> r.rmse, spread |-> r.spread,
     at_rmse |-> r.at_rmse, at_spread |-> r.at_spread]

\* tuning_stat = 'fore': the statistic whose RMSE is minimised.
tuning_stat_post == "post"

tuning_stat == "fore"

\* The body of the loop for one (i, j): the RMSE and spread picked for the
\* cell and the inner positions they were read at, or the exception raised.
TuneCellSpreadLast(tuned_rmse, tuned_rmse_min_vals, stat_rmse, stat_spread, i, j) ==
    LET min_val == tuned_rmse_min_vals.v[i][j]
        indx == [k \in 1..tuned_rmse.shape[2] |->
                    FEq(tuned_rmse.v[i][k][j], min_val)]
        tmp_rmse == BoolIndex(stat_rmse, i, indx, j)
        tmp_spread == BoolIndex(stat_spread, i, indx, j)
        Cell(exc, r, s, ar, as) ==
            [status |-> exc, rmse |-> r, spread |-> s,
             at_rmse |-> ar, at_spread |-> as]
    IN  IF tmp_rmse.status # "ok"
        THEN Cell(tmp_rmse.status, 0, 0, 0, 0)
        ELSE IF tmp_spread.status # "ok"
        THEN Cell(tmp_spread.status, 0, 0, 0, 0)
        ELSE IF Len(tmp_rmse.vals) > 1
        THEN Cell("ok", TakeFirst(tmp_rmse.vals), TakeLast(tmp_spread.vals),
                  TakeFirst(tmp_rmse.at), TakeLast(tmp_spread.at))
        ELSE IF Len(tmp_rmse.vals) = 1
        \* a one-element array is stored as its element
        THEN Cell("ok", tmp_rmse.vals[1], tmp_spread.vals[1],
                  tmp_rmse.at[1], tmp_spread.at[1])
        \* an empty array cannot be stored in one cell
        ELSE Cell("ValueError", 0, 0, 0, 0)

TuneCell(tuned_rmse, tuned_rmse_min_vals, stat_rmse, stat_spread, i, j) ==
    LET min_val == tuned_rmse_min_vals.v[i][j]
        indx == [k \in 1..tuned_rmse.shape[2] |->
                    FEq(tuned_rmse.v[i][k][j], min_val)]
        tmp_rmse == BoolIndex(stat_rmse, i, indx, j)
        tmp_spread == BoolIndex(stat_spread, i, indx, j)
        Cell(exc, r, s, ar, as) ==
            [status |-> exc, rmse |-> r, spread |-> s,
             at_rmse |-> ar, at_spread |-> as]
    IN  IF tmp_rmse.status # "ok"
        THEN Cell(tmp_rmse.status, 0, 0, 0, 0)
        ELSE IF tmp_spread.status # "ok"
        THEN Cell(tmp_spread.status, 0, 0, 0, 0)
        ELSE IF Len(tmp_rmse.vals) > 1
        THEN Cell("ok", TakeFirst(tmp_rmse.vals), TakeFirst(tmp_spread.vals),
                  TakeFirst(tmp_rmse.at), TakeFirst(tmp_spread.at))
        ELSE IF Len(tmp_rmse.vals) = 1
        \* a one-element array is stored as its element
        THEN Cell("ok", tmp_rmse.vals[1], tmp_spread.vals[1],
                  tmp_rmse.at[1], tmp_spread.at[1])
        \* an empty array cannot be stored in one cell
        ELSE Cell("ValueError", 0, 0, 0, 0)

\* The body shared by the three copies of find_optimal_values, reading the
\* container src.  The result holds the two returned arrays, the inner
\* positions each cell was read at, and the container after the call.
Tune(src, method, stat) ==
    LET kt == Key(method, tuning_stat, "rmse")
        kr == Key(method, stat, "rmse")
        ks == Key(method, stat, "spread")
    IN  IF kt \notin DOMAIN src
        THEN Raise("KeyError", src)
        ELSE
        LET tuned_rmse == ReplaceNaN(src[kt])
            store == ContainerAfterWrite(src, kt, tuned_rmse)
        IN  IF tuned_rmse.shape[2] = 0
            THEN Raise("ValueError", store)
            ELSE
            LET tuned_rmse_min_vals == NpMinAxis1(tuned_rmse)
                shift == tuned_rmse_min_vals.shape[1]
                lag == tuned_rmse_min_vals.shape[2]
            IN  IF kr \notin DOMAIN store \/ ks \notin DOMAIN store
                THEN Raise("KeyError", store)
                ELSE
                LET stat_rmse == store[kr]
                    stat_spread == store[ks]
                    cell == [i \in 1..shift |-> [j \in 1..lag |->
                                TuneCell(tuned_rmse, tuned_rmse_min_vals,
                                         stat_rmse, stat_spread, i, j)]]
                    bad == {c \in (1..shift) \X (1..lag) :
                                cell[c[1]][c[2]].status # "ok"}
                    first == CHOOSE c \in bad : \A d \in bad :
                                \/ c[1] < d[1]
                                \/ c[1] = d[1] /\ c[2] <= d[2]
                IN  IF bad # {}
                    THEN Raise(cell[first[1]][first[2]].status, store)
                    ELSE
                    [status |-> "ok",
                     rmse |-> NpTranspose(Array2(shift, lag,
                         [i \in 1..shift |-> [j \in 1..lag |->
                             cell[i][j].rmse]])),
                     spread |-> NpTranspose(Array2(shift, lag,
                         [i \in 1..shift |-> [j \in 1..lag |->
                             cell[i][j].spread]])),
                     at_rmse |-> NpTranspose(Array2(shift, lag,
                         [i \in 1..shift |-> [j \in 1..lag |->
                             cell[i][j].at_rmse]])),
                     at_spread |-> NpTranspose(Array2(shift, lag,
                         [i \in 1..shift |-> [j \in 1..lag |->
                             cell[i][j].at_spread]])),
                     store |-> store]

\* The copy in the shift script reads the global f, whatever it is passed.
find_optimal_values_shift(method, stat, dat) == Tune(f, method, stat)

\* The copy in the tanl script reads the global f, whatever it is passed.
find_optimal_values_tanl(method, stat, dat) == Tune(f, method, stat)

\* The copy in the lag script reads its argument.
find_optimal_values_lag(method, stat, dat) == Tune(dat, method, stat)

\* ------------------------------------------------------------------------
\* The containers the model is run on
\* ------------------------------------------------------------------------
FVals == {NaN, Inf} \cup (0..MaxVal)

\* The forecast-RMSE slices over the inner axis.
Slices == UNION {[1..B -> FVals] : B \in 1..MaxInner}

Rot(s, r) == [k \in 1..Len(s) |-> s[((k - 1 + r) % Len(s)) + 1]]

Reverse(s) == [k \in 1..Len(s) |-> s[Len(s) + 1 - k]]

\* A forecast array whose slice at (i, j) is a rotation of s that differs
\* from cell to cell and from method to method.
ForeArray(s, A, C, mi) ==
    Array3(A, Len(s), C,
        [i \in 1..A |-> [k \in 1..Len(s) |-> [j \in 1..C |->
            Rot(s, (i - 1) + 2 * (j - 1) + mi)[k]]]])

\* An array whose entries are pairwise different and tell the array and the
\* position they stand at.
CodeArray(n, A, B, C) ==
    Array3(A, B, C,
        [i \in 1..A |-> [k \in 1..B |-> [j \in 1..C |->
            1000 * n + ((i - 1) * B + (k - 1)) * C + j]]])

Position(seq, x) == CHOOSE n \in 1..Len(seq) : seq[n] = x

ArrayNo(mi, stat, metric) ==
    ((mi - 1) * Len(stats) + (Position(stats, stat) - 1)) * 2
        + (IF metric = "rmse" THEN 1 ELSE 2)

Triples(methods) == (1..Len(methods)) \X {stats[n] : n \in 1..Len(stats)} \X Metrics

KeyOf(methods, t) == Key(methods[t[1]], t[2], t[3])

\* The container holding, for every method of methods, the six arrays of
\* shape (A, Len(s), C): the forecast RMSE built from s, the others coded.
Container(methods, s, A, C) ==
    [key \in {KeyOf(methods, t) : t \in Triples(methods)} |->
        LET t == CHOOSE t \in Triples(methods) : KeyOf(methods, t) = key
        IN  IF t[2] = "fore" /\ t[3] = "rmse"
            THEN ForeArray(s, A, C, t[1] - 1)
            ELSE CodeArray(ArrayNo(t[1], t[2], t[3]), A, Len(s), C)]

Without(c, key) == [k \in DOMAIN c \ {key} |-> c[k]]

\* c with the coded array at triple t given a shape that differs from the
\* forecast array's by delta in dimension dim.
Misshaped(c, methods, t, dim, delta) ==
    LET sh == c[KeyOf(methods, t)].shape
        d(n) == IF n = dim THEN sh[n] + delta ELSE sh[n]
    IN  [c EXCEPT ![KeyOf(methods, t)] =
            CodeArray(ArrayNo(t[1], t[2], t[3]), d(1), d(2), d(3))]

CodedTriples(methods) ==
    {t \in Triples(methods) : ~(t[2] = "fore" /\ t[3] = "rmse")}

\* The containers with one fault: a key missing, or one coded array of
\* another shape than its forecast array.
Faulty(c, methods) ==
    {Without(c, KeyOf(methods, t)) : t \in Triples(methods)}
    \cup {Misshaped(c, methods, t, dim, delta) :
            t \in CodedTriples(methods), dim \in 1..3, delta \in {-1, 1}}

\* The example of the specification, in tenths: forecast slice
\* [0.3, 0.1, NaN], statistic RMSE slice [0.5, 0.2, 0.9].
ExampleContainer ==
    LET c == Container(<<"etks_classic">>, <<3, 1, NaN>>, 1, 1)
    IN  [c EXCEPT ![Key("etks_classic", "post", "rmse")] =
            Array3(1, 3, 1,
                [i \in 1..1 |-> [k \in 1..3 |-> [j \in 1..1 |->
                    <<5, 2, 9>>[k]]]])]

\* The method find_optimal_values is called with on its own.
FnMethod == method_list("shift")[1]

\* The slices of full length with every pattern of missing entries: the
\* faulty containers and the scripts' files are built on these.
PatternSlices == [1..MaxInner -> {NaN, 0}]

\* The (outer, lag) shapes of the containers find_optimal_values is called
\* on: each dimension is 1 or the largest.
FnShapes == {1, MaxOuter} \X {1, MaxLag}

\* The pairs (global container g, argument d) find_optimal_values is called
\* on: the argument is the global container, or another container of the
\* largest shape, and a container of the largest shape may have one fault.
FnInput(g, d) ==
    \/ g = ExampleContainer /\ d = ExampleContainer
    \/ \E s \in Slices, sh \in FnShapes :
        /\ g = Container(<<FnMethod>>, s, sh[1], sh[2])
        /\ d = g
    \/ \E s \in PatternSlices :
        /\ g = Container(<<FnMethod>>, s, MaxOuter, MaxLag)
        /\ d = Container(<<FnMethod>>, Reverse(s), MaxOuter, MaxLag)
    \/ \E s \in PatternSlices :
        \E c \in Faulty(Container(<<FnMethod>>, s, MaxOuter, MaxLag),
                        <<FnMethod>>) :
            g = c /\ d = c

NoCall == [script |-> "none", method |-> "none", stat |-> "none"]

fnVars == <<f, data, call, ret>>

runVars ==
    <<script, disk, opened, mpos, spos, gi, gj, gk, rmse, spread, drawn, shown, err,
      run, prev>>

vars == <<fnVars, runVars, pc>>

NoOutcome == Outcome(Raise("none", <<>>))

NoRun == [drawn |-> <<>>, shown |-> 0, err |-> "none"]

\* No script runs: find_optimal_values is called on its own.
NoScript ==
    /\ script = "none"
    /\ disk = <<>>
    /\ opened = FALSE
    /\ mpos = 1
    /\ spos = 1
    /\ gi = 0
    /\ gj = 0
    /\ gk = 0
    /\ rmse = NoArray
    /\ spread = NoArray
    /\ drawn = <<>>
    /\ shown = 0
    /\ err = "none"
    /\ run = 1
    /\ prev = NoRun

InitFn ==
    /\ FnInput(f, data)
    /\ call = NoCall
    /\ ret = NoOutcome
    /\ pc = "ready"
    /\ NoScript

Returned(scr, method, stat, r) ==
    /\ call' = [script |-> scr, method |-> method, stat |-> stat]
    /\ ret' = Outcome(r)
    /\ pc' = IF r.status = "ok" THEN "returned" ELSE "raised"
    /\ UNCHANGED runVars

CallShift ==
    /\ pc = "ready"
    /\ \E stat \in {stats[n] : n \in 1..Len(stats)} :
        \E r \in {find_optimal_values_shift(FnMethod, stat, data)} :
            /\ Returned("shift", FnMethod, stat, r)
            /\ f' = r.store
            /\ data' = data

CallTanl ==
    /\ pc = "ready"
    /\ \E stat \in {stats[n] : n \in 1..Len(stats)} :
        \E r \in {find_optimal_values_tanl(FnMethod, stat, data)} :
            /\ Returned("tanl", FnMethod, stat, r)
            /\ f' = r.store
            /\ data' = data

CallLag ==
    /\ pc = "ready"
    /\ \E stat \in {stats[n] : n \in 1..Len(stats)} :
        \E r \in {find_optimal_values_lag(FnMethod, stat, data)} :
            /\ Returned("lag", FnMethod, stat, r)
            /\ data' = r.store
            /\ f' = f

NextFn == CallShift \/ CallTanl \/ CallLag

SpecFn == InitFn /\ [][NextFn]_vars

\* ------------------------------------------------------------------------
\* The scripts
\* ------------------------------------------------------------------------
Scripts == {"shift", "tanl", "lag"}

\* Constants of the lag script.
ensemble == 3

total_lag == 86

\* total_lag of the tanl script.
tanl_total_lag == 53

\* y_vals, the values of the last tick-label loop of the shift and tanl
\* scripts: a literal list, and np.arange(1, total_lag, 3).
y_vals(scr) ==
    IF scr = "shift"
    THEN <<1, 2, 4, 8, 16, 32, 48, 64, 80, 96>>
    ELSE [n \in 1..((tanl_total_lag + 1) \div 3) |-> 3 * n - 2]

\* len(range(1, total_lag, 3))
plot_range == (total_lag + 1) \div 3

markerlist == <<"+", "x", "d", "o", "^">>

color_list == <<"#d95f02", "#7570b3", "#1b9e77">>

\* Constants of the shift and tanl scripts.
rmse_ax_list ==
    <<"ax1a", "ax1b", "ax1c", "ax2a", "ax2b", "ax2c",
      "ax3a", "ax3b", "ax3c", "ax4a", "ax4b", "ax4c">>

spread_ax_list ==
    <<"ax5a", "ax5b", "ax5c", "ax6a", "ax6b", "ax6c",
      "ax7a", "ax7b", "ax7c", "ax8a", "ax8b", "ax8c">>

rmse_label_h_positions == <<115, 220, 325, 430>>

spread_label_h_positions == <<570, 675, 780, 885>>

label_v_positions == <<336, 626, 916>>

\* s[0:n]
PySlice(s, n) == SubSeq(s, 1, IF n < Len(s) THEN n ELSE Len(s))

\* The test of the main loop: the finite-size schemes have no tuned
\* parameter and are plotted as stored.
UntunedByFamily(method) ==
    \/ PySlice(method, 6) = "enks-n"
    \/ PySlice(method, 6) = "mles-n"
    \/ PySlice(method, 5) = "ienks"
    \/ PySlice(method, 11) = "lin-ienks-n"

Untuned(method) ==
    \/ PySlice(method, 6) = "enks-n"
    \/ PySlice(method, 6) = "mles-n"
    \/ PySlice(method, 7) = "ienks-n"
    \/ PySlice(method, 11) = "lin-ienks-n"

\* The chain of tests that names the scheme of a method (shift and tanl).
scheme(method) ==
    CASE method = "etks_classic" -> "ETKS"
      [] method = "etks_single_iteration" -> "SIEnKS"
      [] method = "enks-n-primal_classic" -> "EnKS-N"
      [] method = "mles-n-transform_classic" -> "EnKS-N"
      [] method = "enks-n-primal_single_iteration" -> "SIEnKS-N"
      [] method = "mles-n-transform_single_iteration" -> "SIEnKS-N"
      [] method = "ienks-transform" -> "IEnKS"
      [] method = "lin-ienks-transform" -> "Lin-IEnKS"
      [] method = "ienks-n-transform" -> "IEnKS-N"
      [] method = "lin-ienks-n-transform" -> "Lin-IEnKS-N"

\* The chain of tests that names the statistic (lag).
stat_name(stat) ==
    CASE stat = "post" -> "smoother"
      [] stat = "filt" -> "filter"
      [] stat = "fore" -> "forecast"

\* The chain of tests that names the method (lag).
meth_name(meth) ==
    CASE meth = "etks_classic" -> "ETKS"
      [] meth = "etks_single_iteration" -> "SIEnKS"
      [] meth = "enks-n-primal_classic" -> "EnKS-N"
      [] meth = "enks-n-primal-ls_classic" -> "EnKS-N-ls"
      [] meth = "mles-n-transform_classic" -> "EnKS-N"
      [] meth = "enks-n-primal_single_iteration" -> "SIEnKS-N"
      [] meth = "enks-n-primal-ls_single_iteration" -> "SIEnKS-N-ls"
      [] meth = "mles-n-transform_single_iteration" -> "SIEnKS-N"
      [] meth = "ienks-transform" -> "IEnKS"
      [] meth = "ienks-n-transform" -> "IEnKS-N"
      [] meth = "lin-ienks-transform" -> "Lin-IEnKS"
      [] meth = "lin-ienks-n-transform" -> "Lin-IEnKS-N"

\* a[::-1, col] of a two-dimensional array, col a Python index: the column
\* from the last row to the first, or IndexError.
ReversedColumn(a, col) ==
    IF col >= a.shape[2]
    THEN [status |-> "IndexError", val |-> NoArray]
    ELSE [status |-> "ok",
          val |-> [shape |-> <<a.shape[1]>>,
                   v |-> [r \in 1..a.shape[1] |->
                            a.v[a.shape[1] + 1 - r][col + 1]]]]

\* a[:n] of a one-dimensional array.
Head1(a, n) ==
    LET m == IF n < a.shape[1] THEN n ELSE a.shape[1]
    IN  [shape |-> <<m>>, v |-> SubSeq(a.v, 1, m)]

\* The lines of a script before its main loop: a new figure, the results
\* file opened read-only, the counters set to zero.
OpenKeepCounters ==
    /\ pc = "start"
    /\ f' = disk
    /\ opened' = TRUE
    /\ drawn' = <<>>
    /\ shown' = 0
    /\ mpos' = 1
    /\ spos' = 1
    /\ pc' = "select"
    /\ err' = "none"
    /\ call' = NoCall
    /\ ret' = NoOutcome
    /\ UNCHANGED <<data, script, disk, gi, gj, gk, rmse, spread, run, prev>>

Open ==
    /\ pc = "start"
    /\ f' = disk
    /\ opened' = TRUE
    /\ drawn' = <<>>
    /\ shown' = 0
    /\ mpos' = 1
    /\ spos' = 1
    /\ gi' = 0
    /\ gj' = 0
    /\ gk' = 0
    /\ pc' = "select"
    /\ err' = "none"
    /\ call' = NoCall
    /\ ret' = NoOutcome
    /\ UNCHANGED <<data, script, disk, rmse, spread, run, prev>>

\* The run ends with the uncaught exception exc.
CrashCaught(exc) ==
    /\ pc' = "draw"
    /\ err' = exc

Crash(exc) ==
    /\ pc' = "crashed"
    /\ err' = exc

\* The arrays the main loop gets for the pair at (mpos, spos): from
\* find_optimal_values, or the stored arrays transposed.
Selected ==
    LET method == method_list(script)[mpos]
        stat == stats[spos]
        kr == Key(method, stat, "rmse")
        ks == Key(method, stat, "spread")
    IN  IF Untuned(method)
        THEN IF kr \notin DOMAIN f \/ ks \notin DOMAIN f
             THEN Raise("KeyError", f)
             ELSE [Raise("ok", f) EXCEPT
                      !.rmse = NpTranspose(f[kr]),
                      !.spread = NpTranspose(f[ks])]
        ELSE IF script = "shift"
        THEN find_optimal_values_shift(method, stat, f)
        ELSE IF script = "tanl"
        THEN find_optimal_values_tanl(method, stat, f)
        ELSE find_optimal_values_lag(method, stat, f)

\* The first half of the loop body: rmse and spread are computed for the
\* pair at (mpos, spos); the lag script keeps one reversed column of each.
Select ==
    /\ pc = "select"
    /\ \E r \in {Selected} :
       \E cr \in {ReversedColumn(r.rmse, ensemble)} :
       \E cs \in {ReversedColumn(r.spread, ensemble)} :
           /\ f' = r.store
           /\ IF ~Untuned(method_list(script)[mpos])
              THEN /\ call' = [script |-> script,
                               method |-> method_list(script)[mpos],
                               stat |-> stats[spos]]
                   /\ ret' = Outcome(r)
              ELSE UNCHANGED <<call, ret>>
           /\ IF r.status # "ok"
              THEN Crash(r.status) /\ UNCHANGED <<rmse, spread>>
              ELSE IF script # "lag"
              THEN /\ rmse' = r.rmse
                   /\ spread' = r.spread
                   /\ pc' = "draw"
                   /\ err' = err
              ELSE IF cr.status # "ok"
              THEN Crash(cr.status) /\ UNCHANGED <<rmse, spread>>
              ELSE IF cs.status # "ok"
              THEN /\ Crash(cs.status)
                   /\ rmse' = cr.val
                   /\ spread' = spread
              ELSE /\ rmse' = cr.val
                   /\ spread' = cs.val
                   /\ pc' = "draw"
                   /\ err' = err
    /\ UNCHANGED <<data, script, disk, opened, mpos, spos, gi, gj, gk,
                   drawn, shown, run, prev>>

\* The loop moves to the next pair, or leaves the loop after the last one.
AdvanceShowInLoop ==
    /\ IF spos < Len(stats)
       THEN /\ spos' = spos + 1
            /\ mpos' = mpos
            /\ gj' = gj
            /\ pc' = "select"
       ELSE /\ spos' = 1
            /\ mpos' = mpos + 1
            /\ gj' = gj + 1
            /\ pc' = "show"

Advance ==
    /\ IF spos < Len(stats)
       THEN /\ spos' = spos + 1
            /\ mpos' = mpos
            /\ gj' = gj
            /\ pc' = "select"
       ELSE /\ spos' = 1
            /\ mpos' = mpos + 1
            /\ gj' = gj + 1
            /\ pc' = IF mpos < Len(method_list(script))
                     THEN "select" ELSE "show"

\* What the second half of the loop body puts on the figure.
DrawingOnMethodPane ==
    LET method == method_list(script)[mpos]
        stat == stats[spos]
    IN  IF script = "lag"
        THEN [method |-> method, stat |-> stat,
              tuned |-> (call.method = method /\ call.stat = stat),
              rmse_ax |-> "ax0", spread_ax |-> "ax1",
              marker |-> markerlist[gj + 1], color |-> color_list[gk + 1],
              label |-> meth_name(method) \o " " \o stat_name(stat),
              rmse |-> Head1(rmse, plot_range),
              spread |-> Head1(spread, plot_range)]
        ELSE [method |-> method, stat |-> stat,
              tuned |-> (call.method = method /\ call.stat = stat),
              rmse_ax |-> rmse_ax_list[gj + 1],
              spread_ax |-> spread_ax_list[gj + 1],
              rmse_label_at |-> <<rmse_label_h_positions[gj + 1],
                                  label_v_positions[(gi % 3) + 1]>>,
              spread_label_at |-> <<spread_label_h_positions[gj + 1],
                                    label_v_positions[(gi % 3) + 1]>>,
              label |-> scheme(method),
              rmse |-> rmse,
              spread |-> spread]

Drawing ==
    LET method == method_list(script)[mpos]
        stat == stats[spos]
    IN  IF script = "lag"
        THEN [method |-> method, stat |-> stat,
              tuned |-> (call.method = method /\ call.stat = stat),
              rmse_ax |-> "ax0", spread_ax |-> "ax1",
              marker |-> markerlist[gj + 1], color |-> color_list[gk + 1],
              label |-> meth_name(method) \o " " \o stat_name(stat),
              rmse |-> Head1(rmse, plot_range),
              spread |-> Head1(spread, plot_range)]
        ELSE [method |-> method, stat |-> stat,
              tuned |-> (call.method = method /\ call.stat = stat),
              rmse_ax |-> rmse_ax_list[gi + 1],
              spread_ax |-> spread_ax_list[gi + 1],
              rmse_label_at |-> <<rmse_label_h_positions[gj + 1],
                                  label_v_positions[(gi % 3) + 1]>>,
              spread_label_at |-> <<spread_label_h_positions[gj + 1],
                                    label_v_positions[(gi % 3) + 1]>>,
              label |-> scheme(method),
              rmse |-> rmse,
              spread |-> spread]

\* The exception the second half of the loop body raises, or "ok": a list
\* indexed past its end, or (lag) a line whose y values are not as many as
\* its x values.
DrawStatus ==
    IF script = "lag"
    THEN IF gj >= Len(markerlist) \/ gk >= Len(color_list)
         THEN "IndexError"
         ELSE IF Head1(rmse, plot_range).shape[1] # plot_range
         THEN "ValueError"
         ELSE "ok"
    ELSE IF gi >= Len(rmse_ax_list) \/ gj >= Len(rmse_label_h_positions)
         THEN "IndexError"
         ELSE "ok"

\* The second half of the loop body: the pair is drawn and labelled and the
\* counters advance.
Draw ==
    /\ pc = "draw"
    /\ IF DrawStatus # "ok"
       THEN /\ Crash(DrawStatus)
            /\ UNCHANGED <<drawn, mpos, spos, gi, gj, gk>>
       ELSE /\ drawn' = Append(drawn, Drawing)
            /\ gi' = IF script = "lag" THEN gi ELSE gi + 1
            /\ gk' = IF script = "lag" THEN (gk + 1) % 3 ELSE gk
            /\ Advance
            /\ err' = err
    /\ UNCHANGED <<f, data, call, ret, script, disk, opened, rmse, spread,
                   shown, run, prev>>

\* The value the tick-label loops after the main loop leave in i.
IAfterTicks == IF script = "lag" THEN gi ELSE Len(y_vals(script)) - 1

\* The lines after the main loop: ticks and legends, then plt.show().
Show ==
    /\ pc = "show"
    /\ shown' = shown + 1
    /\ gi' = IAfterTicks
    /\ pc' = "done"
    /\ UNCHANGED <<f, data, call, ret, script, disk, opened, mpos, spos,
                   gj, gk, rmse, spread, drawn, err, run, prev>>

\* The script is run again on the same file: what the first run left
\* behind is still there when the second starts.
Rerun ==
    /\ pc \in {"done", "crashed"}
    /\ run < MaxRuns
    /\ run' = run + 1
    /\ prev' = [drawn |-> drawn, shown |-> shown, err |-> err]
    /\ pc' = "start"
    /\ UNCHANGED <<f, data, call, ret, script, disk, opened, mpos, spos,
                   gi, gj, gk, rmse, spread, drawn, shown, err>>

\* An array of two dimensions whose entries are pairwise different and
\* tell the array and the position they stand at.
CodeArray2(n, A, C) ==
    Array2(A, C,
        [r \in 1..A |-> [c \in 1..C |->
            1000 * n + (r - 1) * C + c]])

\* The container of the finite-size schemes: they have no tuned parameter,
\* and their arrays have the two dimensions (outer, lag).
Container2(methods, A, C) ==
    [key \in {KeyOf(methods, t) : t \in Triples(methods)} |->
        LET t == CHOOSE t \in Triples(methods) : KeyOf(methods, t) = key
        IN  CodeArray2(ArrayNo(t[1], t[2], t[3]), A, C)]

\* The shapes (outer, lag) of the files a script is run on.  The lag script
\* reads column ensemble of its arrays and draws plot_range points: it is
\* run on files too small for either, and on files of the full shape.
ScriptShapes(scr) ==
    IF scr = "lag"
    THEN {<<MaxOuter, MaxLag>>, <<ensemble + 1, MaxLag>>}
    ELSE (1..MaxOuter) \X (1..MaxLag)

FullShape(scr) ==
    IF scr = "lag" THEN <<ensemble + 1, plot_range>> ELSE <<MaxOuter, MaxLag>>

\* The slices the files with a missing key are built on.
UnitSlices == [1..1 -> {NaN, 0}]

\* The results files d a script is run on: sound files of every shape, and
\* files of the full shape with one key missing.
ScriptFile(scr, d) ==
    LET ml == method_list(scr)
        full == FullShape(scr)
    IN  IF Untuned(ml[1])
        THEN \/ \E sh \in ScriptShapes(scr) : d = Container2(ml, sh[1], sh[2])
             \/ \E t \in Triples(ml) :
                    d = Without(Container2(ml, full[1], full[2]), KeyOf(ml, t))
        ELSE \/ \E s \in PatternSlices, sh \in ScriptShapes(scr) :
                    d = Container(ml, s, sh[1], sh[2])
             \/ \E s \in PatternSlices : d = Container(ml, s, full[1], full[2])
             \/ \E s \in UnitSlices, t \in Triples(ml) :
                    d = Without(Container(ml, s, full[1], full[2]),
                                KeyOf(ml, t))

Init ==
    /\ script \in Scripts
    /\ ScriptFile(script, disk)
    /\ f = <<>>
    /\ opened = FALSE
    /\ data = <<>>
    /\ call = NoCall
    /\ ret = NoOutcome
    /\ pc = "start"
    /\ mpos = 1
    /\ spos = 1
    /\ gi = 0
    /\ gj = 0
    /\ gk = 0
    /\ rmse = NoArray
    /\ spread = NoArray
    /\ drawn = <<>>
    /\ shown = 0
    /\ err = "none"
    /\ run = 1
    /\ prev = NoRun

Next == Open \/ Select \/ Draw \/ Show \/ Rerun

Spec == Init /\ [][Next]_vars

\* ------------------------------------------------------------------------
\* Properties of find_optimal_values (specification SpecFn)
\* ------------------------------------------------------------------------
Called == call # NoCall

\* The container the called copy read.
Src == IF call.script = "lag" THEN data ELSE f

HasKeys ==
    /\ Key(call.method, "fore", "rmse") \in DOMAIN Src
    /\ Key(call.method, call.stat, "rmse") \in DOMAIN Src
    /\ Key(call.method, call.stat, "spread") \in DOMAIN Src

Fore == Src[Key(call.method, "fore", "rmse")]

StatRmse == Src[Key(call.method, call.stat, "rmse")]

StatSpread == Src[Key(call.method, call.stat, "spread")]

EqualShapes == StatRmse.shape = Fore.shape /\ StatSpread.shape = Fore.shape

Cells == (1..Fore.shape[1]) \X (1..Fore.shape[3])

Inner == 1..Fore.shape[2]

\* The forecast entry with NaN read as +infinity.
Sentinel(x) == IF x = NaN THEN Inf ELSE x

\* The inner positions at which the forecast slice of cell c attains its
\* minimum, NaN read as +infinity.
ArgMins(c) ==
    {k \in Inner :
        \A n \in Inner :
            \/ Sentinel(Fore.v[c[1]][k][c[2]]) = Sentinel(Fore.v[c[1]][n][c[2]])
            \/ Sentinel(Fore.v[c[1]][k][c[2]]) < Sentinel(Fore.v[c[1]][n][c[2]])}

Least(S) == CHOOSE k \in S : \A n \in S : k <= n

\* C1: on inputs of equal shape the call returns, and for every cell (i, j)
\* whose forecast slice has a non-NaN entry the stored RMSE and spread are
\* the statistic's RMSE and spread at one inner position k where the
\* forecast, NaN read as +infinity, attains the minimum of the slice; the
\* forecast slice [0.3, 0.1, NaN] with RMSE slice [0.5, 0.2, 0.9] gives 0.2.
C1_SelectsAtMinimum ==
    (Called /\ HasKeys /\ EqualShapes) =>
        /\ ret.status = "ok"
        /\ \A c \in Cells :
            (\E k \in Inner : ~isnan(Fore.v[c[1]][k][c[2]])) =>
                \E k \in ArgMins(c) :
                    /\ ret.rmse.v[c[2]][c[1]] = StatRmse.v[c[1]][k][c[2]]
                    /\ ret.spread.v[c[2]][c[1]] = StatSpread.v[c[1]][k][c[2]]
        /\ (Src = ExampleContainer /\ call.stat = "post") =>
                ret.rmse.v[1][1] = 2

C1_Witness ==
    /\ Called
    /\ Src = ExampleContainer
    /\ call.stat = "post"
    /\ ret.status = "ok"
    /\ ret.rmse.v[1][1] = 2

\* C2: when two or more inner positions of a cell's forecast slice attain
\* the minimum, the RMSE and the spread are both read at the smallest one.
C2_TieTakesFirst ==
    (Called /\ HasKeys /\ EqualShapes) =>
        /\ ret.status = "ok"
        /\ \A c \in Cells :
            Cardinality(ArgMins(c)) >= 2 =>
                LET k == Least(ArgMins(c))
                IN  /\ ret.at_rmse.v[c[2]][c[1]] = k
                    /\ ret.at_spread.v[c[2]][c[1]] = k
                    /\ ret.rmse.v[c[2]][c[1]] = StatRmse.v[c[1]][k][c[2]]
                    /\ ret.spread.v[c[2]][c[1]] = StatSpread.v[c[1]][k][c[2]]

\* A tie between the second and third positions, the first being larger.
C2_Witness ==
    /\ Called /\ HasKeys /\ EqualShapes
    /\ ret.status = "ok"
    /\ \E c \in Cells :
        /\ ArgMins(c) = {2, 3}
        /\ ret.at_rmse.v[c[2]][c[1]] = 2
        /\ ~isnan(Fore.v[c[1]][2][c[2]])

AllNaN(c) == \A k \in Inner : isnan(Fore.v[c[1]][k][c[2]])

\* C3: a call on a forecast array with an all-NaN slice raises.
C3_AllNaNRaises ==
    (Called /\ HasKeys /\ \E c \in Cells : AllNaN(c)) => ret.status # "ok"

Finite(x) == x # NaN /\ x # Inf

\* C4: in a cell whose forecast slice has a finite entry, the position the
\* RMSE and the spread are read at is never one whose forecast entry is NaN.
C4_SentinelNotSelected ==
    (Called /\ ret.status = "ok") =>
        \A c \in Cells :
            (\E k \in Inner : Finite(Fore.v[c[1]][k][c[2]])) =>
                /\ ~isnan(Fore.v[c[1]][ret.at_rmse.v[c[2]][c[1]]][c[2]])
                /\ ~isnan(Fore.v[c[1]][ret.at_spread.v[c[2]][c[1]]][c[2]])

\* A slice that starts with NaN and has a finite entry further on.
C4_Witness ==
    /\ Called
    /\ ret.status = "ok"
    /\ \E c \in Cells :
        /\ isnan(Fore.v[c[1]][1][c[2]])
        /\ \E k \in Inner : Finite(Fore.v[c[1]][k][c[2]])
        /\ ret.at_rmse.v[c[2]][c[1]] > 1

\* C5: for a forecast array of shape (A, B, C) the two returned arrays have
\* shape (C, A), and entry [j][i] of each is the value read for outer
\* index i and lag index j.
C5_TransposedShape ==
    (Called /\ ret.status = "ok") =>
        LET A == Fore.shape[1]
            C == Fore.shape[3]
        IN  /\ ret.rmse.shape = <<C, A>>
            /\ ret.spread.shape = <<C, A>>
            /\ DOMAIN ret.rmse.v = 1..C
            /\ DOMAIN ret.spread.v = 1..C
            /\ \A j \in 1..C :
                /\ DOMAIN ret.rmse.v[j] = 1..A
                /\ DOMAIN ret.spread.v[j] = 1..A
                /\ \A i \in 1..A :
                    LET k == Least(ArgMins(<<i, j>>))
                    IN  /\ ret.rmse.v[j][i] = StatRmse.v[i][k][j]
                        /\ ret.spread.v[j][i] = StatSpread.v[i][k][j]

C5_Witness ==
    /\ Called
    /\ ret.status = "ok"
    /\ Fore.shape[1] = 2
    /\ Fore.shape[3] = 1
    /\ ret.rmse.shape = <<1, 2>>

\* C8: a call in which the statistic's RMSE or spread array has another
\* shape than the forecast array raises.
C8_ShapeMismatchRaises ==
    (Called /\ HasKeys /\ ~EqualShapes) => ret.status # "ok"

\* C11: in every cell of a returned result the RMSE and the spread are read
\* at the same inner position: the RMSE stored is the statistic's RMSE at
\* that position and the spread stored is the statistic's spread there.
C11_SameInnerIndex ==
    (Called /\ ret.status = "ok") =>
        \A c \in Cells :
            LET k == ret.at_rmse.v[c[2]][c[1]]
            IN  /\ ret.at_spread.v[c[2]][c[1]] = k
                /\ k \in Inner
                /\ ret.rmse.v[c[2]][c[1]] = StatRmse.v[c[1]][k][c[2]]
                /\ ret.spread.v[c[2]][c[1]] = StatSpread.v[c[1]][k][c[2]]

\* A result with two cells read at different positions, one of them a cell
\* where several positions attain the minimum.
C11_Witness ==
    /\ Called
    /\ ret.status = "ok"
    /\ \E c \in Cells, d \in Cells :
        /\ Cardinality(ArgMins(c)) >= 2
        /\ ret.at_rmse.v[c[2]][c[1]] = ret.at_spread.v[c[2]][c[1]]
        /\ ret.at_rmse.v[d[2]][d[1]] = ret.at_spread.v[d[2]][d[1]]
        /\ ret.at_rmse.v[c[2]][c[1]] # ret.at_rmse.v[d[2]][d[1]]


\* The copy that was called, called again on the same containers for stat.
SameCopy(stat) ==
    IF call.script = "shift"
    THEN find_optimal_values_shift(call.method, stat, data)
    ELSE IF call.script = "tanl"
    THEN find_optimal_values_tanl(call.method, stat, data)
    ELSE find_optimal_values_lag(call.method, stat, data)

\* C12: whatever statistic is requested, the inner position read in each
\* cell is the first one at which the method's forecast RMSE attains its
\* minimum, so the calls for 'post', 'filt' and 'fore' on the same input
\* that return read every cell at the same position.
C12_TunedOnForecast ==
    (Called /\ ret.status = "ok") =>
        /\ \A c \in Cells :
              ret.at_rmse.v[c[2]][c[1]] = Least(ArgMins(c))
        /\ \A n \in 1..Len(stats) :
              \A other \in {SameCopy(stats[n])} :
                  other.status = "ok" =>
                    /\ other.at_rmse = ret.at_rmse
                    /\ other.at_spread = ret.at_spread

\* A call for 'post' whose positions are those of the call for 'fore', one
\* of them not the first, while the requested RMSE is least at the first.
C12_Witness ==
    /\ Called
    /\ call.stat = "post"
    /\ ret.status = "ok"
    /\ SameCopy("fore").status = "ok"
    /\ SameCopy("fore").at_rmse = ret.at_rmse
    /\ \E c \in Cells :
        /\ ret.at_rmse.v[c[2]][c[1]] > 1
        /\ \A k \in Inner \ {1} :
              StatRmse.v[c[1]][1][c[2]] < StatRmse.v[c[1]][k][c[2]]

\* C13: called with the same method, statistic and data argument, the three
\* copies of find_optimal_values give the same outcome, also when the
\* argument is another container than the one the script has opened.
C13_CopiesAgree ==
    Called =>
        /\ Outcome(find_optimal_values_shift(call.method, call.stat, data)) = ret
        /\ Outcome(find_optimal_values_tanl(call.method, call.stat, data)) = ret
        /\ Outcome(find_optimal_values_lag(call.method, call.stat, data)) = ret

\* ------------------------------------------------------------------------
\* Properties of a script run (specification Spec)
\* ------------------------------------------------------------------------
Methods == method_list(script)

NumPairs == Len(Methods) * Len(stats)

\* The n-th pair of the main loop, n from 1.
PairMethod(n) == Methods[((n - 1) \div Len(stats)) + 1]

PairStat(n) == stats[((n - 1) % Len(stats)) + 1]

\* The keys the loop body reads for a pair.
NeededKeys(method, stat) ==
    {Key(method, stat, "rmse"), Key(method, stat, "spread")}
    \cup (IF Untuned(method) THEN {} ELSE {Key(method, "fore", "rmse")})

RequestedKeys ==
    UNION {NeededKeys(PairMethod(n), PairStat(n)) : n \in 1..NumPairs}

\* C6: the opened container always holds the arrays of the file as they
\* are on disk, and a call for the statistic 'fore' returns entries of the
\* forecast array on disk, its NaN entries still NaN.
C6_ContainerUnchanged ==
    /\ opened => f = disk
    /\ (opened /\ call.stat = "fore" /\ ret.status = "ok") =>
          LET fore == disk[Key(call.method, "fore", "rmse")]
          IN  \A r \in 1..fore.shape[1], c \in 1..fore.shape[3] :
                ret.rmse.v[c][r] = fore.v[r][ret.at_rmse.v[c][r]][c]

\* A run that ended after a call returned a NaN of the forecast array.
C6_Witness ==
    /\ pc = "done"
    /\ call.stat = "fore"
    /\ ret.status = "ok"
    /\ \E c \in DOMAIN ret.rmse.v : \E r \in DOMAIN ret.rmse.v[c] :
          isnan(ret.rmse.v[c][r])
    /\ f = disk

\* C7: when a requested key is missing from the file, the figure is never
\* displayed, no pair that needs a missing key is drawn or gets arrays, and
\* the run ends with KeyError at the pair that needs it, for which
\* find_optimal_values returns nothing.
C7_MissingKeyEndsRun ==
    (RequestedKeys \ DOMAIN disk # {}) =>
        /\ shown = 0
        /\ pc \notin {"show", "done"}
        /\ \A n \in 1..Len(drawn) :
              NeededKeys(drawn[n].method, drawn[n].stat) \subseteq DOMAIN disk
        /\ pc = "draw" =>
              NeededKeys(Methods[mpos], stats[spos]) \subseteq DOMAIN disk
        /\ (pc = "crashed" /\ mpos <= Len(Methods)
              /\ ~(NeededKeys(Methods[mpos], stats[spos]) \subseteq DOMAIN disk)) =>
              /\ err = "KeyError"
              /\ ~Untuned(Methods[mpos]) =>
                    /\ call.method = Methods[mpos]
                    /\ call.stat = stats[spos]
                    /\ ret.status = "KeyError"

\* A run that drew some pairs and then met the missing key.
C7_Witness ==
    /\ RequestedKeys \ DOMAIN disk # {}
    /\ pc = "crashed"
    /\ err = "KeyError"
    /\ Len(drawn) >= 1
    /\ shown = 0

\* C9: a second run of a script on the same file draws what the first run
\* drew, pair by pair, and ends as the first run ended.
C9_RunsAgree ==
    run > 1 =>
        /\ Len(drawn) <= Len(prev.drawn)
        /\ \A n \in 1..Len(drawn) : drawn[n] = prev.drawn[n]
        /\ pc \in {"done", "crashed"} =>
              /\ drawn = prev.drawn
              /\ shown = prev.shown
              /\ err = prev.err

C9_Witness ==
    /\ run = 2
    /\ pc = "done"
    /\ Len(drawn) = NumPairs
    /\ prev.drawn = drawn
    /\ prev.shown = 1

\* The arrays the loop body has for the pair at (mpos, spos).
SelectionOfPair ==
    IF script = "lag"
    THEN [rmse |-> ReversedColumn(Selected.rmse, ensemble).val,
          spread |-> ReversedColumn(Selected.spread, ensemble).val]
    ELSE [rmse |-> Selected.rmse, spread |-> Selected.spread]

\* C10: nothing is read or drawn before the file is opened; the pairs are
\* drawn in loop order, each after its own selection has finished and with
\* the arrays that selection produced; the figure is displayed once, after
\* all pairs have been drawn.
C10_StepsInOrder ==
    /\ (pc \in {"select", "draw", "show", "done"}) => opened
    /\ (call # NoCall \/ rmse # NoArray \/ drawn # <<>> \/ shown > 0) => opened
    /\ \A n \in 1..Len(drawn) :
          /\ drawn[n].method = PairMethod(n)
          /\ drawn[n].stat = PairStat(n)
    /\ (pc \in {"select", "draw"}) =>
          Len(drawn) = (mpos - 1) * Len(stats) + (spos - 1)
    /\ pc = "draw" =>
          /\ rmse = SelectionOfPair.rmse
          /\ spread = SelectionOfPair.spread
    /\ shown <= 1
    /\ shown = 1 => (pc = "done" \/ (pc = "start" /\ run > 1))
    /\ shown = 1 => Len(drawn) = NumPairs
    /\ pc = "show" => (shown = 0 /\ Len(drawn) = NumPairs)
    /\ pc = "done" => shown = 1

C10_Witness ==
    /\ script = "lag"
    /\ run = 1
    /\ pc = "done"
    /\ shown = 1
    /\ Len(drawn) = NumPairs


StartsWith(s, p) == Len(s) >= Len(p) /\ SubSeq(s, 1, Len(p)) = p

FiniteSizePrefixes == {"enks-n", "mles-n", "ienks-n", "lin-ienks-n"}

HasFiniteSizePrefix(method) ==
    \E p \in FiniteSizePrefixes : StartsWith(method, p)

\* a is the transpose of the stored two- or three-dimensional array b, as
\* far as its first two axes go.
IsTransposeOf(a, b) ==
    /\ a.shape = <<b.shape[2], b.shape[1]>>
    /\ \A r \in 1..b.shape[1], c \in 1..b.shape[2] : a.v[c][r] = b.v[r][c]

\* C14: a pair goes through find_optimal_values exactly when its method
\* does not start with 'enks-n', 'mles-n', 'ienks-n' or 'lin-ienks-n'; for
\* a method with such a prefix the arrays drawn are the transposes of the
\* stored arrays and find_optimal_values is not called; the four methods
\* of the shift and lag scripts are tuned, the four of the tanl script not.
C14_TunedUnlessFiniteSize ==
    /\ Called => ~HasFiniteSizePrefix(call.method)
    /\ \A n \in 1..Len(drawn) :
          /\ drawn[n].tuned <=> ~HasFiniteSizePrefix(drawn[n].method)
          /\ (HasFiniteSizePrefix(drawn[n].method) /\ script # "lag") =>
                /\ IsTransposeOf(drawn[n].rmse,
                        disk[Key(drawn[n].method, drawn[n].stat, "rmse")])
                /\ IsTransposeOf(drawn[n].spread,
                        disk[Key(drawn[n].method, drawn[n].stat, "spread")])
    /\ pc = "draw" =>
          IF HasFiniteSizePrefix(Methods[mpos])
          THEN call = NoCall
          ELSE /\ call.method = Methods[mpos]
               /\ call.stat = stats[spos]
               /\ ret.status = "ok"
               /\ script # "lag" => (rmse = ret.rmse /\ spread = ret.spread)
    /\ \A m \in {"etks_classic", "etks_single_iteration",
                  "lin-ienks-transform", "ienks-transform"} :
          /\ ~HasFiniteSizePrefix(m)
          /\ script \in {"shift", "lag"} => \E n \in 1..4 : Methods[n] = m
    /\ \A m \in {"mles-n-transform_classic",
                  "mles-n-transform_single_iteration",
                  "lin-ienks-n-transform", "ienks-n-transform"} :
          /\ HasFiniteSizePrefix(m)
          /\ script = "tanl" => \E n \in 1..4 : Methods[n] = m

\* A finished run of the shift script, all twelve pairs tuned.
C14_Witness ==
    /\ script = "shift"
    /\ pc = "done"
    /\ Len(drawn) = NumPairs
    /\ \A n \in 1..Len(drawn) : drawn[n].tuned

\* A finished run of the tanl script, no pair tuned and no call made.
C14_WitnessUntuned ==
    /\ script = "tanl"
    /\ pc = "done"
    /\ Len(drawn) = NumPairs
    /\ \A n \in 1..Len(drawn) : ~drawn[n].tuned
    /\ call = NoCall


PaneScript == script \in {"shift", "tanl"}

\* C15: in the shift and tanl scripts, at every draw step i = 3 * j + the
\* position of the statistic, 0 <= i <= 11 and 0 <= j <= 3; the n-th pair
\* is drawn on the n-th RMSE pane and the n-th spread pane, no pane twice,
\* with the scheme name of its own method placed in that method's column
\* and that statistic's row; the loop ends with i = 12 and j = 4.
C15_PaneCounters ==
    PaneScript =>
        /\ pc = "draw" =>
              /\ gi = 3 * gj + (spos - 1)
              /\ gj = mpos - 1
              /\ gi = Len(drawn)
              /\ 0 <= gi /\ gi <= 11
              /\ 0 <= gj /\ gj <= 3
        /\ \A n \in 1..Len(drawn) :
              LET mp == ((n - 1) \div 3) + 1
                  sp == ((n - 1) % 3) + 1
              IN  /\ drawn[n].method = Methods[mp]
                  /\ drawn[n].stat = stats[sp]
                  /\ drawn[n].rmse_ax = rmse_ax_list[n]
                  /\ drawn[n].spread_ax = spread_ax_list[n]
                  /\ drawn[n].label = scheme(Methods[mp])
                  /\ drawn[n].rmse_label_at =
                        <<rmse_label_h_positions[mp], label_v_positions[sp]>>
                  /\ drawn[n].spread_label_at =
                        <<spread_label_h_positions[mp], label_v_positions[sp]>>
        /\ \A n \in 1..Len(drawn), m \in 1..Len(drawn) :
              n # m =>
                  /\ drawn[n].rmse_ax # drawn[m].rmse_ax
                  /\ drawn[n].spread_ax # drawn[m].spread_ax
                  /\ drawn[n].rmse_ax # drawn[m].spread_ax
        /\ Len(drawn) <= 12
        /\ pc = "show" => (gi = 12 /\ gj = 4 /\ Len(drawn) = 12)

\* The tanl script has left its loop after drawing the twelve pairs.
C15_Witness ==
    /\ script = "tanl"
    /\ pc = "show"
    /\ gi = 12
    /\ gj = 4
    /\ Len(drawn) = 12
    /\ drawn[12].rmse_ax = "ax4c"
    /\ drawn[12].label = "IEnKS-N"

====
